---- MODULE Spec2Model ----
(***************************************************************************)
(* Model of Stocks/app2.py: a Streamlit script that keeps a portfolio in   *)
(* st.session_state, downloads price series, and renders a valuation, a    *)
(* rebased performance chart and a return / risk summary.                  *)
(*                                                                         *)
(* The script is rerun top to bottom on every interaction.  One rerun is   *)
(* modelled in two positions (pc): the sidebar part (lines 16-74), which   *)
(* applies the interaction to the session state, and the main content      *)
(* (lines 76-231), which computes everything that is rendered.  No         *)
(* interaction is accepted between the two.                                *)
(*                                                                         *)
(* Floating point values are modelled as exact fractions <<n, d>> with     *)
(* d >= 0: d > 0 is the finite value n/d, <<1, 0>> is +inf, <<-1, 0>> is   *)
(* -inf and <<0, 0>> is NaN (numpy division by zero yields inf or NaN and  *)
(* raises nothing).  Rounding is not modelled.                             *)
(***************************************************************************)
EXTENDS Integers, Sequences, FiniteSets, TLC

\* ---------------------------------------------------------------- bounds
MaxDate == 3
MaxPrice == 2
MaxAmount == 1

Tickers == {"A", "B"}
topix_ticker == "^TOPIX"
Symbols == Tickers \cup {topix_ticker}
Dates == 1..MaxDate
Amounts == 0..MaxAmount

\* ------------------------------------------------------------ float model
Abs(n) == IF n < 0 THEN -n ELSE n
Sgn(n) == IF n < 0 THEN -1 ELSE IF n > 0 THEN 1 ELSE 0

RECURSIVE GCD(_, _)
GCD(a, b) == IF b = 0 THEN a ELSE GCD(b, a % b)

Norm(n, d) ==
    IF d = 0 THEN <<Sgn(n), 0>>
    ELSE LET g == GCD(Abs(n), Abs(d))
         IN  <<(Sgn(d) * n) \div g, Abs(d) \div g>>

NaN == <<0, 0>>
Inf == <<1, 0>>
Num(n) == <<n, 1>>
IsNaN(x) == x = NaN
IsFinite(x) == x[2] > 0

FNeg(x) == <<-x[1], x[2]>>

FAdd(x, y) ==
    IF IsNaN(x) \/ IsNaN(y) THEN NaN
    ELSE IF x[2] = 0 /\ y[2] = 0 THEN (IF x = y THEN x ELSE NaN)
    ELSE IF x[2] = 0 THEN x
    ELSE IF y[2] = 0 THEN y
    ELSE LET g == GCD(x[2], y[2])
         IN  Norm(x[1] * (y[2] \div g) + y[1] * (x[2] \div g), (x[2] \div g) * y[2])

FSub(x, y) == FAdd(x, FNeg(y))

\* both factors are in lowest terms: cancel across before multiplying
FMul(x, y) ==
    LET g == GCD(Abs(x[1]), y[2])
        h == GCD(Abs(y[1]), x[2])
    IN  IF x[2] = 0 \/ y[2] = 0 THEN <<Sgn(x[1]) * Sgn(y[1]), 0>>
        ELSE <<(x[1] \div g) * (y[1] \div h), (x[2] \div h) * (y[2] \div g)>>

\* 1/x; the only zero is +0.0 (prices and amounts are never negative zero)
FInv(x) == IF x[1] < 0 THEN <<-x[2], -x[1]>> ELSE <<x[2], x[1]>>

FDiv(x, y) == FMul(x, FInv(y))

\* x > 0 as numpy evaluates it: False for NaN
FPos(x) == x[1] > 0

\* ---------------------------------------------------------- pandas model
\* A Series is a function from its index (a set of dates) to its values.
EmptySeries == <<>>
IsEmpty(s) == DOMAIN s = {}
Min(S) == CHOOSE x \in S : \A y \in S : x <= y
Max(S) == CHOOSE x \in S : \A y \in S : x >= y
First(s) == s[Min(DOMAIN s)]
Last(s) == s[Max(DOMAIN s)]

\* yf.download(sym, start, end + 1 day)['Adj Close']: the observations of sym
\* inside [start, end]
Download(mkt, sym, start, end) ==
    [d \in {x \in DOMAIN mkt[sym] : start <= x /\ x <= end} |-> Num(mkt[sym][d])]

\* the fetch loop without the data.empty test of line 117
FetchPricesKeepEmpty(pf, mkt, start, end, failed) ==
    [t \in DOMAIN pf \ failed |-> Download(mkt, t, start, end)]

\* lines 110-123: the fetch loop over every ticker of the portfolio
FetchPrices(pf, mkt, start, end, failed) ==
    LET data == [t \in DOMAIN pf \ failed |-> Download(mkt, t, start, end)]
    IN  [t \in {x \in DOMAIN data : ~IsEmpty(data[x])} |-> data[t]]

FetchMessages(pf, mkt, start, end, failed) ==
    {<<"error_fetch", t>> : t \in DOMAIN pf \cap failed}
    \cup {<<"warning_no_data", t>> :
            t \in {x \in DOMAIN pf \ failed : IsEmpty(Download(mkt, x, start, end))}}

\* pd.DataFrame(stock_prices): the index is the union of the series' indexes,
\* a cell with no observation is NaN
DataFrame(sp) ==
    LET index == UNION {DOMAIN sp[t] : t \in DOMAIN sp}
    IN  [t \in DOMAIN sp |->
            [d \in index |-> IF d \in DOMAIN sp[t] THEN sp[t][d] ELSE NaN]]

FFillSeries(col) ==
    [d \in DOMAIN col |->
        LET seen == {x \in DOMAIN col : x <= d /\ ~IsNaN(col[x])}
        IN  IF seen = {} THEN NaN ELSE col[Max(seen)]]

BFillSeries(col) ==
    [d \in DOMAIN col |->
        LET later == {x \in DOMAIN col : x >= d /\ ~IsNaN(col[x])}
        IN  IF later = {} THEN NaN ELSE col[Min(later)]]

\* line 130 without the back-fill
FillFrameForwardOnly(df) == [t \in DOMAIN df |-> FFillSeries(df[t])]

\* line 130: df_prices.ffill().bfill()
FillFrame(df) == [t \in DOMAIN df |-> BFillSeries(FFillSeries(df[t]))]

FrameIndex(df) == UNION {DOMAIN df[t] : t \in DOMAIN df}

\* line 137 / line 159: series / series.iloc[0] * 100
Rebase(s) ==
    LET first == First(s)
    IN  [d \in DOMAIN s |-> FMul(FDiv(s[d], first), Num(100))]

\* the benchmark with a zero series, not an empty one, in the except clause
TopixDataZeroDefault(mkt, start, end, failed) ==
    LET data == BFillSeries(FFillSeries(Download(mkt, topix_ticker, start, end)))
    IN  IF topix_ticker \in failed \/ IsEmpty(data)
        THEN [d \in {x \in Dates : start <= x /\ x <= end} |-> Num(0)]
        ELSE Rebase(data)

\* lines 134-140: the benchmark; an exception of the download and the
\* IndexError of iloc[0] on an empty series both end in the except clause
TopixData(mkt, start, end, failed) ==
    LET data == BFillSeries(FFillSeries(Download(mkt, topix_ticker, start, end)))
    IN  IF topix_ticker \in failed \/ IsEmpty(data) THEN EmptySeries
        ELSE Rebase(data)

RECURSIVE FSum(_)
FSum(f) ==
    IF DOMAIN f = {} THEN Num(0)
    ELSE LET x == CHOOSE y \in DOMAIN f : TRUE
         IN  FAdd(f[x], FSum([y \in DOMAIN f \ {x} |-> f[y]]))

\* line 150: the holdings that enter the sum
Valued(pf, df) == {t \in DOMAIN pf : t \in DOMAIN df /\ pf[t].invest_amount > 0}

\* line 154
InitialShares(pf, df, t) == FDiv(Num(pf[t].invest_amount), First(df[t]))

\* line 155: one holding's summand on one date
HoldingValue(shares, price) == FMul(shares, price)

\* line 155, right-hand side: initial_shares * df_prices[ticker], per valued holding
HoldingValues(pf, df) ==
    [t \in Valued(pf, df) |->
        LET shares == InitialShares(pf, df, t)
        IN  [d \in DOMAIN df[t] |-> HoldingValue(shares, df[t][d])]]

\* lines 148-155: pd.Series(0.0, index = df_prices.index) plus every summand
PortfolioDailyValue(df, hv) ==
    [d \in FrameIndex(df) |-> FSum([t \in DOMAIN hv |-> hv[t][d]])]

\* lines 158-161
NormalizePortfolio(v) ==
    IF ~IsEmpty(v) /\ FPos(First(v)) THEN Rebase(v) ELSE EmptySeries

\* Series.pct_change().dropna()
PctChange(v) ==
    [d \in DOMAIN v |->
        IF d = Min(DOMAIN v) THEN NaN
        ELSE FSub(FDiv(v[d], v[Max({x \in DOMAIN v : x < d})]), Num(1))]

DropNa(s) == [d \in {x \in DOMAIN s : ~IsNaN(s[x])} |-> s[d]]

Mean(r) == FDiv(FSum(r), Num(Cardinality(DOMAIN r)))

\* Series.std() squared (ddof = 1): NaN for a single value
Variance(r) ==
    LET m == Mean(r)
    IN  FDiv(FSum([d \in DOMAIN r |-> FMul(FSub(r[d], m), FSub(r[d], m))]),
             Num(Cardinality(DOMAIN r) - 1))

\* line 198 / 225
TotalReturn(s) == FMul(FDiv(FSub(Last(s), First(s)), First(s)), Num(100))

\* the guard of line 202 as num_years >= 0
AnnualizedReturnNonNegative(total, start, end) ==
    LET days == end - start
    IN  IF days >= 0
        THEN [kind |-> "pow", base |-> FAdd(Num(1), FDiv(total, Num(100))), days |-> days]
        ELSE [kind |-> "zero", base |-> Num(0), days |-> days]

\* lines 201-202 / 227-228.  num_years = days / 365.25 has the sign of days.
\* The power is kept symbolic: "pow" stands for
\* ((1 + total / 100) ** (365.25 / days) - 1) * 100.
AnnualizedReturn(total, start, end) ==
    LET days == end - start
    IN  IF days > 0
        THEN [kind |-> "pow", base |-> FAdd(Num(1), FDiv(total, Num(100))), days |-> days]
        ELSE [kind |-> "zero", base |-> Num(0), days |-> days]

NoSharpe == [kind |-> "none", sign |-> 0, square |-> Num(0)]

\* the guard of line 214 as std >= 0
SharpeRatioNonNegative(v) ==
    LET r == DropNa(PctChange(v))
        average == Mean(r)
        variance == Variance(r)
    IN  IF IsEmpty(r) THEN [NoSharpe EXCEPT !.kind = "no_returns"]
        ELSE IF FPos(variance) \/ variance = Num(0)
        THEN [kind |-> "value", sign |-> Sgn(average[1]),
              square |-> FDiv(FMul(FMul(average, Num(252)), FMul(average, Num(252))),
                              FMul(variance, Num(252)))]
        ELSE [NoSharpe EXCEPT !.kind = "no_risk"]

\* lines 209-220.  std > 0 is decided on the variance (std is its square
\* root); a computed ratio average * 252 / (std * 252 ** 0.5) is kept as its
\* sign and its square.
SharpeRatio(v) ==
    LET r == DropNa(PctChange(v))
        average == Mean(r)
        variance == Variance(r)
    IN  IF IsEmpty(r) THEN [NoSharpe EXCEPT !.kind = "no_returns"]
        ELSE IF FPos(variance)
        THEN [kind |-> "value", sign |-> Sgn(average[1]),
              square |-> FDiv(FMul(FMul(average, Num(252)), FMul(average, Num(252))),
                              FMul(variance, Num(252)))]
        ELSE [NoSharpe EXCEPT !.kind = "no_risk"]

NoSummary == [shown |-> FALSE, total_return |-> NaN,
              annualized |-> [kind |-> "none", base |-> Num(0), days |-> 0],
              sharpe |-> NoSharpe]

\* lines 195-220
PortfolioSummary(v, normalized, start, end) ==
    IF IsEmpty(normalized) THEN NoSummary
    ELSE LET total == TotalReturn(normalized)
         IN  [shown |-> TRUE,
              total_return |-> total,
              annualized |-> AnnualizedReturn(total, start, end),
              sharpe |-> SharpeRatio(v)]

\* lines 222-231
TopixSummary(topix, start, end) ==
    IF IsEmpty(topix) THEN NoSummary
    ELSE LET total == TotalReturn(topix)
         IN  [shown |-> TRUE,
              total_return |-> total,
              annualized |-> AnnualizedReturn(total, start, end),
              sharpe |-> NoSharpe]

\* lines 167-182: the traces added to the performance chart
ChartTraces(normalized, topix) ==
    (IF IsEmpty(normalized) THEN {} ELSE {"portfolio"})
    \cup (IF IsEmpty(topix) THEN {} ELSE {"topix"})

RECURSIVE SumAmounts(_, _)
SumAmounts(pf, S) ==
    IF S = {} THEN 0
    ELSE LET t == CHOOSE x \in S : TRUE
         IN  pf[t].invest_amount + SumAmounts(pf, S \ {t})

\* sum(d['invest_amount'] for d in st.session_state.portfolio.values())
TotalInvested(pf) == SumAmounts(pf, DOMAIN pf)

\* line 77 without its test of the total
NothingInvestedEmptyOnly(pf) == DOMAIN pf = {}

\* line 77 (and the unreachable repeat of it on line 81)
NothingInvested(pf) == DOMAIN pf = {} \/ TotalInvested(pf) = 0

\* the symbols a rerun downloads: none when line 77 ends it, the benchmark
\* only when some holding has prices (line 125)
Downloaded(pf, mkt, start, end, failed) ==
    IF NothingInvested(pf) THEN {}
    ELSE DOMAIN pf \cup (IF \A t \in DOMAIN pf \ failed : IsEmpty(Download(mkt, t, start, end))
                         THEN {} ELSE {topix_ticker})

\* ------------------------------------------------------------------ state
VARIABLES
    portfolio,       \* st.session_state.portfolio: ticker -> [name, invest_amount]
    start_date,      \* the two date inputs of the sidebar
    end_date,
    market,          \* the price history the data source serves: symbol -> date -> price
    pc,              \* "main": the sidebar part of a rerun is done; "idle": the rerun is done
    failed,          \* the symbols whose download raised in the last rerun
    analysed,        \* the analysis branch (line 84) was entered in the last rerun
    messages,        \* the info / warning / error boxes of the main content
    stock_prices,    \* line 110
    df_prices,       \* line 130
    topix_data,      \* lines 135-140
    holding_value,   \* line 155: the summand of each valued holding
    portfolio_daily_value,               \* lines 148-155
    portfolio_daily_value_normalized,    \* lines 158-161
    traces,          \* the traces of fig_performance
    summary_port,    \* lines 195-220
    summary_topix    \* lines 222-231

session == <<portfolio, start_date, end_date, market>>
rendered == <<failed, analysed, messages, stock_prices, df_prices, topix_data,
              holding_value, portfolio_daily_value, portfolio_daily_value_normalized, traces,
              summary_port, summary_topix>>
vars == <<session, pc, rendered>>

\* every price history over Dates with prices in P: any date may lack an observation
SeriesOver(P) == UNION {[D -> P] : D \in SUBSET Dates}

\* a stock quoted on every date at the constant price p
Steady(p) == [d \in Dates |-> p]

\* an index whose history begins on date 2: it opens at p0 and rises by 1 a
\* date up to MaxPrice
Rising(p0) ==
    [d \in Dates \ {1} |-> IF p0 + d - 2 < MaxPrice THEN p0 + d - 2 ELSE MaxPrice]

\* the price histories the data source may hold: ticker A has any history with
\* prices in P, ticker B is quoted steadily from date 1, the benchmark rises
\* from one of the opening prices P0 and has no observation on date 1
Markets(P, P0) ==
    {[s \in Symbols |-> IF s = "A" THEN a ELSE IF s = "B" THEN Steady(1) ELSE x] :
        a \in SeriesOver(P), x \in {Rising(p0) : p0 \in P0}}

\* nothing rendered yet
Blank ==
    /\ failed = {}
    /\ analysed = FALSE
    /\ messages = {}
    /\ stock_prices = <<>>
    /\ df_prices = <<>>
    /\ topix_data = EmptySeries
    /\ holding_value = <<>>
    /\ portfolio_daily_value = EmptySeries
    /\ portfolio_daily_value_normalized = EmptySeries
    /\ traces = {}
    /\ summary_port = NoSummary
    /\ summary_topix = NoSummary

\* a rerun starts from an empty page
Clear ==
    /\ failed' = {}
    /\ analysed' = FALSE
    /\ messages' = {}
    /\ stock_prices' = <<>>
    /\ df_prices' = <<>>
    /\ topix_data' = EmptySeries
    /\ holding_value' = <<>>
    /\ portfolio_daily_value' = EmptySeries
    /\ portfolio_daily_value_normalized' = EmptySeries
    /\ traces' = {}
    /\ summary_port' = NoSummary
    /\ summary_topix' = NoSummary

\* the session as the first rerun finds it: line 23, lines 72-74
InitSession ==
    /\ portfolio = <<>>
    /\ start_date = 1
    /\ end_date = MaxDate
    /\ pc = "main"
    /\ Blank

Init ==
    /\ market \in Markets(1..MaxPrice, {1})
    /\ InitSession

\* lines 25-43: "add" pressed with ticker t typed in; found = FALSE is the
\* exception of the info lookup
AddStock(t, found) ==
    /\ pc = "idle"
    /\ portfolio' = IF found /\ t \notin DOMAIN portfolio
                    THEN [x \in DOMAIN portfolio \cup {t} |->
                            IF x = t THEN [name |-> t, invest_amount |-> 0]
                            ELSE portfolio[x]]
                    ELSE portfolio
    /\ pc' = "main"
    /\ Clear
    /\ UNCHANGED <<start_date, end_date, market>>

\* lines 55-63: the amount input of ticker t changed to a (min_value = 0)
SetAmount(t, a) ==
    /\ pc = "idle"
    /\ t \in DOMAIN portfolio
    /\ a # portfolio[t].invest_amount
    /\ portfolio' = [portfolio EXCEPT ![t].invest_amount = a]
    /\ pc' = "main"
    /\ Clear
    /\ UNCHANGED <<start_date, end_date, market>>

\* lines 65-67: "delete" pressed for ticker t, then st.rerun()
DeleteStock(t) ==
    /\ pc = "idle"
    /\ t \in DOMAIN portfolio
    /\ portfolio' = [x \in DOMAIN portfolio \ {t} |-> portfolio[x]]
    /\ pc' = "main"
    /\ Clear
    /\ UNCHANGED <<start_date, end_date, market>>

\* line 73: the start date input changed to d; the end date does not bound it
SetStartDate(d) ==
    /\ pc = "idle"
    /\ d # start_date
    /\ start_date' = d
    /\ pc' = "main"
    /\ Clear
    /\ UNCHANGED <<portfolio, end_date, market>>

\* line 74: the end date input changed to d
SetEndDate(d) ==
    /\ pc = "idle"
    /\ d # end_date
    /\ end_date' = d
    /\ pc' = "main"
    /\ Clear
    /\ UNCHANGED <<portfolio, start_date, market>>

\* the downloads that raise in one rerun: none, or that of one symbol
Failures == {{}} \cup {{s} : s \in Symbols}

\* lines 77-231: the main content of the rerun; bad are the symbols whose
\* download raises
MainContent(bad) ==
    /\ pc = "main"
    /\ bad \subseteq Downloaded(portfolio, market, start_date, end_date, bad)
    /\ pc' = "idle"
    /\ failed' = bad
    /\ UNCHANGED session
    /\ IF NothingInvested(portfolio)
       THEN /\ analysed' = FALSE
            /\ messages' = {<<"info_setup", "">>}
            /\ stock_prices' = <<>>
            /\ df_prices' = <<>>
            /\ topix_data' = EmptySeries
            /\ holding_value' = <<>>
            /\ portfolio_daily_value' = EmptySeries
            /\ portfolio_daily_value_normalized' = EmptySeries
            /\ traces' = {}
            /\ summary_port' = NoSummary
            /\ summary_topix' = NoSummary
       ELSE LET sp == FetchPrices(portfolio, market, start_date, end_date, bad)
                fm == FetchMessages(portfolio, market, start_date, end_date, bad)
            IN  /\ analysed' = TRUE
                /\ stock_prices' = sp
                /\ IF DOMAIN sp = {}
                   THEN /\ messages' = fm \cup {<<"warning_no_prices", "">>}
                        /\ df_prices' = <<>>
                        /\ topix_data' = EmptySeries
                        /\ holding_value' = <<>>
                        /\ portfolio_daily_value' = EmptySeries
                        /\ portfolio_daily_value_normalized' = EmptySeries
                        /\ traces' = {}
                        /\ summary_port' = NoSummary
                        /\ summary_topix' = NoSummary
                   ELSE LET df == FillFrame(DataFrame(sp))
                            topix == TopixData(market, start_date, end_date, bad)
                            hv == HoldingValues(portfolio, df)
                            v == PortfolioDailyValue(df, hv)
                            n == NormalizePortfolio(v)
                            ps == PortfolioSummary(v, n, start_date, end_date)
                        IN  /\ df_prices' = df
                            /\ topix_data' = topix
                            /\ holding_value' = hv
                            /\ portfolio_daily_value' = v
                            /\ portfolio_daily_value_normalized' = n
                            /\ traces' = ChartTraces(n, topix)
                            /\ summary_port' = ps
                            /\ summary_topix' = TopixSummary(topix, start_date, end_date)
                            /\ messages' = fm
                                 \cup (IF IsEmpty(topix) THEN {<<"error_topix", "">>} ELSE {})
                                 \cup (IF ps.shown /\ ps.sharpe.kind = "no_risk"
                                       THEN {<<"info_no_risk", "">>} ELSE {})
                                 \cup (IF ps.shown /\ ps.sharpe.kind = "no_returns"
                                       THEN {<<"info_no_returns", "">>} ELSE {})

Next ==
    \/ \E t \in Tickers, found \in BOOLEAN : AddStock(t, found)
    \/ \E t \in Tickers, a \in Amounts : SetAmount(t, a)
    \/ \E t \in Tickers : DeleteStock(t)
    \/ \E d \in Dates : SetStartDate(d)
    \/ \E d \in Dates : SetEndDate(d)
    \/ \E bad \in Failures : MainContent(bad)

Spec == Init /\ [][Next]_vars

\* the same program on price data that may hold a price of zero
InitZero ==
    /\ market \in Markets(0..MaxPrice, {0, 1})
    /\ InitSession

SpecZero == InitZero /\ [][Next]_vars

\* ----------------------------------------------------------------- claims
Idle == pc = "idle"

\* what the current rerun downloaded for a symbol, had the download not raised
InRange(sym) == Download(market, sym, start_date, end_date)

Invested(t) == t \in DOMAIN portfolio /\ portfolio[t].invest_amount > 0

NothingRendered ==
    /\ stock_prices = <<>> /\ df_prices = <<>> /\ topix_data = EmptySeries
    /\ holding_value = <<>> /\ portfolio_daily_value = EmptySeries
    /\ portfolio_daily_value_normalized = EmptySeries /\ traces = {}
    /\ summary_port = NoSummary /\ summary_topix = NoSummary

\* C7: after any sequence of add, set-amount and delete operations, a finished
\* rerun has run the analysis exactly when some holding has a strictly
\* positive invested amount; otherwise it shows the setup message alone and
\* no analysis step has produced anything.
C7_AnalysisOnlyWhenInvested ==
    Idle =>
        /\ analysed <=> \E t \in DOMAIN portfolio : Invested(t)
        /\ ~analysed => /\ messages = {<<"info_setup", "">>}
                        /\ failed = {}
                        /\ NothingRendered

\* a portfolio that holds both tickers, none with an amount: only the message
C7_Witness ==
    /\ Idle
    /\ DOMAIN portfolio = Tickers
    /\ \A t \in Tickers : portfolio[t].invest_amount = 0
    /\ ~analysed
    /\ messages = {<<"info_setup", "">>}

\* C2: when a holding has no price observation in the date range and another
\* holding with a positive amount has data, the analysis still completes: the
\* holding without data is reported with a warning and left out of the price
\* table, the value trajectory is the sum over the holdings that have data,
\* and its initial value is the sum of their invested amounts.
C2_NoDataHoldingExcluded ==
    Idle =>
        \A t \in DOMAIN portfolio \ failed :
            (/\ IsEmpty(InRange(t))
             /\ \E u \in DOMAIN stock_prices : Invested(u))
            => /\ analysed
               /\ <<"warning_no_data", t>> \in messages
               /\ t \notin DOMAIN stock_prices
               /\ t \notin DOMAIN df_prices
               /\ t \notin DOMAIN holding_value
               /\ DOMAIN holding_value = {u \in DOMAIN stock_prices : Invested(u)}
               /\ ~IsEmpty(portfolio_daily_value)
               /\ \A d \in DOMAIN portfolio_daily_value :
                     portfolio_daily_value[d]
                        = FSum([u \in DOMAIN holding_value |-> holding_value[u][d]])
               /\ First(portfolio_daily_value)
                     = Num(SumAmounts(portfolio, DOMAIN stock_prices))
               /\ summary_port.shown
               /\ "portfolio" \in traces

\* both tickers hold an amount, A has no observation in the range, B has
C2_Witness ==
    /\ Idle
    /\ Invested("A") /\ Invested("B")
    /\ failed = {}
    /\ IsEmpty(InRange("A"))
    /\ DOMAIN stock_prices = {"B"}
    /\ <<"warning_no_data", "A">> \in messages
    /\ First(portfolio_daily_value) = Num(portfolio["B"].invest_amount)

\* the benchmark is absent in this rerun: its download raised, or it returned
\* no observation in the range
TopixAbsent == topix_ticker \in failed \/ IsEmpty(InRange(topix_ticker))

\* C10: if the benchmark is entirely absent, no benchmark trace and no
\* benchmark total or annualized return is produced (none defaulted to zero),
\* while the portfolio trajectory, trace and summary are produced as they are
\* from the holdings alone.
C10_AbsentBenchmarkOmitted ==
    (Idle /\ analysed /\ DOMAIN stock_prices # {} /\ TopixAbsent) =>
        /\ IsEmpty(topix_data)
        /\ "topix" \notin traces
        /\ summary_topix = NoSummary
        /\ ~summary_topix.shown
        /\ <<"error_topix", "">> \in messages
        /\ portfolio_daily_value
              = PortfolioDailyValue(df_prices, HoldingValues(portfolio, df_prices))
        /\ portfolio_daily_value_normalized = NormalizePortfolio(portfolio_daily_value)
        /\ ("portfolio" \in traces) <=> ~IsEmpty(portfolio_daily_value_normalized)
        /\ summary_port = PortfolioSummary(portfolio_daily_value,
                             portfolio_daily_value_normalized, start_date, end_date)

\* the benchmark download raised, the portfolio is charted and summarised
C10_Witness ==
    /\ Idle
    /\ topix_ticker \in failed
    /\ ~IsEmpty(InRange(topix_ticker))
    /\ traces = {"portfolio"}
    /\ summary_port.shown
    /\ ~summary_topix.shown

\* the date of a fetched holding's first available observation
FirstObserved(t) == Min(DOMAIN stock_prices[t])

\* the holding's last observation on or before d, for d from FirstObserved(t) on
LastPrice(t, d) == stock_prices[t][Max({x \in DOMAIN stock_prices[t] : x <= d})]

SharesOf(t) == FDiv(Num(portfolio[t].invest_amount), stock_prices[t][FirstObserved(t)])

\* C3, as claimed: a holding whose first available observation is later than
\* the first date of the shared index contributes 0 to the aggregate on every
\* date before that observation, and shares * price[t] from that date on.
C3_LateHoldingContributesZero ==
    Idle =>
        \A t \in DOMAIN holding_value : \A d \in DOMAIN holding_value[t] :
            holding_value[t][d] = IF d < FirstObserved(t) THEN Num(0)
                                  ELSE FMul(SharesOf(t), LastPrice(t, d))

\* C3, amended: on every date before its first available observation the
\* holding contributes shares * its first available price (line 130 fills the
\* price backwards), which is its invested amount when that price is
\* positive, and shares * price[t] from that date on, with shares = invested
\* amount / first available price and price[t] the last observation on or
\* before t; the aggregate is the sum of the contributions.
C3_LateHoldingContributesAmount ==
    Idle =>
        /\ \A t \in DOMAIN holding_value :
              /\ DOMAIN holding_value[t] = DOMAIN portfolio_daily_value
              /\ \A d \in DOMAIN holding_value[t] :
                    /\ holding_value[t][d]
                          = FMul(SharesOf(t),
                                 IF d < FirstObserved(t)
                                 THEN stock_prices[t][FirstObserved(t)]
                                 ELSE LastPrice(t, d))
                    /\ (d < FirstObserved(t) /\ FPos(stock_prices[t][FirstObserved(t)]))
                          => holding_value[t][d] = Num(portfolio[t].invest_amount)
        /\ \A d \in DOMAIN portfolio_daily_value :
              portfolio_daily_value[d]
                 = FSum([t \in DOMAIN holding_value |-> holding_value[t][d]])

\* A starts after the index origin, its price moves afterwards, B is valued too
C3_Witness ==
    /\ Idle
    /\ DOMAIN holding_value = {"A", "B"}
    /\ FirstObserved("A") > Min(DOMAIN portfolio_daily_value)
    /\ \E d \in DOMAIN stock_prices["A"] :
          /\ d > FirstObserved("A")
          /\ stock_prices["A"][d] # stock_prices["A"][FirstObserved("A")]
          /\ holding_value["A"][d] # Num(portfolio["A"].invest_amount)
    /\ holding_value["A"][Min(DOMAIN portfolio_daily_value)] = Num(portfolio["A"].invest_amount)

\* the daily returns line 209 computes from the unscaled trajectory
DailyReturns == DropNa(PctChange(portfolio_daily_value))

\* the standard deviation of the returns r exists and is not 0: there are at
\* least two returns, all of them finite, and two of them differ
RiskPresentIn(r) ==
    /\ Cardinality(DOMAIN r) >= 2
    /\ \A d \in DOMAIN r : IsFinite(r[d])
    /\ \E d, e \in DOMAIN r : r[d] # r[e]

RiskPresent == RiskPresentIn(DailyReturns)

ConstantTrajectory ==
    \A d, e \in DOMAIN portfolio_daily_value :
        portfolio_daily_value[d] = portfolio_daily_value[e]

\* C5: the risk ratio is produced as a number only when the standard
\* deviation of the daily returns of the unscaled trajectory is strictly
\* greater than 0; otherwise (constant trajectory, fewer than two returns) it
\* is reported as not computable; no infinite or NaN ratio is displayed; a
\* single holding with a constant price yields total return 0 and no ratio.
C5_SharpeOnlyWithRisk ==
    Idle =>
        /\ summary_port.sharpe.kind = "value" <=> (summary_port.shown /\ RiskPresent)
        /\ summary_port.sharpe.kind = "value" =>
              /\ IsFinite(summary_port.sharpe.square)
              /\ summary_port.sharpe.sign \in {-1, 0, 1}
        /\ (summary_port.shown /\ ~RiskPresent) =>
              /\ summary_port.sharpe.kind \in {"no_risk", "no_returns"}
              /\ \/ <<"info_no_risk", "">> \in messages
                 \/ <<"info_no_returns", "">> \in messages
        /\ (summary_port.shown /\ ConstantTrajectory) =>
              /\ summary_port.total_return = Num(0)
              /\ summary_port.sharpe.kind # "value"

\* a single holding with a constant price over three dates: two returns, no risk
C5_Witness ==
    /\ Idle
    /\ DOMAIN portfolio = {"A"}
    /\ summary_port.shown
    /\ Cardinality(DOMAIN DailyReturns) >= 2
    /\ ConstantTrajectory
    /\ summary_port.total_return = Num(0)
    /\ summary_port.sharpe.kind = "no_risk"
    /\ <<"info_no_risk", "">> \in messages

Summaries == {summary_port, summary_topix}

Analyzable == [t \in {x \in DOMAIN portfolio : Invested(x)} |-> portfolio[t]]

\* the price table and the trajectory of the analyzable subset alone, under
\* the same downloads
AnalyzablePrices == FetchPrices(Analyzable, market, start_date, end_date, failed)
AnalyzableFrame == FillFrame(DataFrame(AnalyzablePrices))

\* C1: a holding whose invested amount is zero or negative is excluded before
\* any computation: the aligned date index, the filled price table and the
\* aggregate value trajectory of a rerun are those of the portfolio without
\* that holding.
C1_ZeroAmountHoldingExcluded ==
    (Idle /\ analysed) =>
        /\ FrameIndex(df_prices) = FrameIndex(AnalyzableFrame)
        /\ \A t \in DOMAIN AnalyzableFrame :
              t \in DOMAIN df_prices /\ df_prices[t] = AnalyzableFrame[t]
        /\ portfolio_daily_value
              = PortfolioDailyValue(AnalyzableFrame,
                                    HoldingValues(Analyzable, AnalyzableFrame))

\* the first price of a holding's column in the price table
OpeningPrice(t) == First(df_prices[t])

\* C8: a holding whose opening price is zero or not positive is excluded from
\* the run instead of being divided by: no share count is computed from it,
\* no infinite or undefined value enters the aggregate trajectory, and the
\* remaining holdings are valued normally.
C8_ZeroOpeningPriceExcluded ==
    (Idle /\ analysed /\ DOMAIN stock_prices # {}) =>
        /\ \A t \in DOMAIN holding_value : FPos(OpeningPrice(t))
        /\ \A d \in DOMAIN portfolio_daily_value : IsFinite(portfolio_daily_value[d])
        /\ \A d \in DOMAIN portfolio_daily_value :
              portfolio_daily_value[d]
                 = FSum([t \in {x \in DOMAIN df_prices :
                                   Invested(x) /\ FPos(OpeningPrice(x))} |->
                           FMul(FDiv(Num(portfolio[t].invest_amount), OpeningPrice(t)),
                                df_prices[t][d])])

\* the rebasing the claim describes: the first value 100 and every value
\* trajectory[t] / trajectory[0] * 100 when the first value is present and not
\* zero, an empty series and no division otherwise
RebasedOrNoBaseline(trajectory, rebased) ==
    IF ~IsEmpty(trajectory) /\ IsFinite(First(trajectory)) /\ First(trajectory) # Num(0)
    THEN /\ DOMAIN rebased = DOMAIN trajectory
         /\ First(rebased) = Num(100)
         /\ \A d \in DOMAIN rebased :
               rebased[d] = FMul(FDiv(trajectory[d], First(trajectory)), Num(100))
    ELSE IsEmpty(rebased)

\* C4: rebasing, for the portfolio trajectory and for the benchmark series
\* alike: a trajectory whose first value is present and not zero is rebased
\* to exactly 100 at its first date and to trajectory[t] / trajectory[0] * 100
\* later; an empty trajectory or a first value that is zero or absent gives an
\* empty rebased series ("no baseline") and no division by zero.
C4_RebaseOrNoBaseline ==
    (Idle /\ analysed /\ DOMAIN stock_prices # {}) =>
        /\ RebasedOrNoBaseline(portfolio_daily_value, portfolio_daily_value_normalized)
        /\ RebasedOrNoBaseline(IF topix_ticker \in failed THEN EmptySeries
                               ELSE InRange(topix_ticker),
                               topix_data)

\* C9: whenever a portfolio trajectory and a benchmark series are both
\* produced in one rerun, both are rebased to 100 at the same start date: the
\* first dates of the two rebased series are equal and both are 100 there.
C9_SameRebasingDate ==
    (Idle /\ ~IsEmpty(portfolio_daily_value_normalized) /\ ~IsEmpty(topix_data)) =>
        /\ Min(DOMAIN portfolio_daily_value_normalized) = Min(DOMAIN topix_data)
        /\ First(portfolio_daily_value_normalized) = Num(100)
        /\ First(topix_data) = Num(100)

====
